---- MODULE Spec2Model ----
(***************************************************************************)
(* Forecast-accuracy metrics of Project/DatasetsForecast.py.               *)
(*                                                                         *)
(* Every function of the file is a pure numpy computation.  A float is     *)
(* modelled as an extended rational <<n, d>>: d > 0 is the finite value    *)
(* n/d in lowest terms, and d = 0 is one of the IEEE special values        *)
(* (<<0,0>> NaN, <<1,0>> +inf, <<-1,0>> -inf).  Rounding and signed zeros  *)
(* are not modelled.  An ndarray is [shape, data] with data in row-major   *)
(* order; a numpy scalar is the array of shape <<>>.                       *)
(***************************************************************************)
EXTENDS Integers, Sequences, FiniteSets, TLC

VARIABLES fn, y, y_hat, aux, quantiles, weights, axis, result, heap, pc

vars == <<fn, y, y_hat, aux, quantiles, weights, axis, result, heap, pc>>

(***************************************************************************)
(* Bounds of the model.                                                    *)
(***************************************************************************)
MaxLen == 2
MaxVal == 1

(***************************************************************************)
(* IEEE arithmetic on extended rationals.                                  *)
(***************************************************************************)
NaN == <<0, 0>>
PInf == <<1, 0>>
NInf == <<-1, 0>>
Fin(i) == <<i, 1>>
Zero == <<0, 1>>

IAbs(i) == IF i < 0 THEN -i ELSE i
Sgn(i) == IF i > 0 THEN 1 ELSE IF i < 0 THEN -1 ELSE 0

RECURSIVE Gcd(_, _)
Gcd(a, b) == IF b = 0 THEN a ELSE Gcd(b, a % b)

\* the rational n/d (d # 0) in lowest terms with a positive denominator
Norm(n, d) ==
    LET g == Gcd(IAbs(n), IAbs(d))
    IN  <<(Sgn(d) * n) \div g, IAbs(d) \div g>>

IsNaN(v) == v = NaN
IsFinite(v) == v[2] > 0
IsInf(v) == v[2] = 0 /\ v[1] # 0

FNeg(a) == <<-a[1], a[2]>>
FAbs(a) == <<IAbs(a[1]), a[2]>>

FAdd(a, b) ==
    IF IsNaN(a) \/ IsNaN(b) THEN NaN
    ELSE IF IsFinite(a) /\ IsFinite(b) THEN Norm(a[1] * b[2] + b[1] * a[2], a[2] * b[2])
    ELSE IF IsInf(a) /\ IsInf(b) THEN (IF a = b THEN a ELSE NaN)
    ELSE IF IsInf(a) THEN a ELSE b

FSub(a, b) == FAdd(a, FNeg(b))

FMul(a, b) ==
    IF IsNaN(a) \/ IsNaN(b) THEN NaN
    ELSE IF IsFinite(a) /\ IsFinite(b) THEN Norm(a[1] * b[1], a[2] * b[2])
    ELSE IF Sgn(a[1]) * Sgn(b[1]) = 0 THEN NaN
    ELSE <<Sgn(a[1]) * Sgn(b[1]), 0>>

\* float64 division: x/0 is +-inf, 0/0 and inf/inf are NaN, no exception
FDiv(a, b) ==
    IF IsNaN(a) \/ IsNaN(b) THEN NaN
    ELSE IF IsInf(b) THEN (IF IsInf(a) THEN NaN ELSE Zero)
    ELSE IF b[1] = 0 THEN (IF a[1] = 0 THEN NaN ELSE <<Sgn(a[1]), 0>>)
    ELSE IF IsInf(a) THEN <<Sgn(a[1]) * Sgn(b[1]), 0>>
    ELSE Norm(a[1] * b[2], a[2] * b[1])

\* a <= b on floats: every comparison with NaN is False
FLe(a, b) ==
    IF IsNaN(a) \/ IsNaN(b) THEN FALSE
    ELSE IF IsInf(a) /\ IsInf(b) THEN a[1] <= b[1]
    ELSE a[1] * b[2] <= b[1] * a[2]

FLt(a, b) == FLe(a, b) /\ a # b

\* np.maximum propagates NaN
FMax(a, b) ==
    IF IsNaN(a) \/ IsNaN(b) THEN NaN
    ELSE IF FLe(a, b) THEN b ELSE a

RECURSIVE IRoot(_, _)
IRoot(n, r) == IF r * r >= n THEN r ELSE IRoot(n, r + 1)

IsSquare(n) == n >= 0 /\ IRoot(n, 0) * IRoot(n, 0) = n

\* the floats whose square root is again an extended rational
HasExactSqrt(v) == ~IsFinite(v) \/ v[1] < 0 \/ (IsSquare(v[1]) /\ IsSquare(v[2]))

\* np.sqrt: NaN for NaN, -inf and negative values, +inf for +inf
FSqrt(v) ==
    IF IsNaN(v) \/ v[1] < 0 THEN NaN
    ELSE IF IsInf(v) THEN PInf
    ELSE <<IRoot(v[1], 0), IRoot(v[2], 0)>>

(***************************************************************************)
(* ndarrays.                                                               *)
(***************************************************************************)
RECURSIVE Prod(_)
Prod(s) == IF s = <<>> THEN 1 ELSE s[1] * Prod(Tail(s))

RECURSIVE FSumSeq(_)
FSumSeq(s) == IF s = <<>> THEN Zero ELSE FAdd(s[1], FSumSeq(Tail(s)))

Arr(shape, data) == [shape |-> shape, data |-> data]
Scalar(v) == Arr(<<>>, <<v>>)

\* the Python value None, which is no array (an array of shape () holds one entry)
None == Arr(<<>>, <<>>)

Ndim(a) == Len(a.shape)

\* all arrays of a shape with entries drawn from S
ArraysOver(shape, S) == {Arr(shape, d) : d \in [1..Prod(shape) -> S]}

Map1(Op(_), a) == Arr(a.shape, [i \in 1..Len(a.data) |-> Op(a.data[i])])
Map2(Op(_, _), a, b) == Arr(a.shape, [i \in 1..Len(a.data) |-> Op(a.data[i], b.data[i])])

\* a[mask]: boolean-mask indexing returns the selected entries as a 1-d array
RECURSIVE SelectIdx(_, _, _)
SelectIdx(data, keep, i) ==
    IF i > Len(data) THEN <<>>
    ELSE IF keep[i] THEN <<data[i]>> \o SelectIdx(data, keep, i + 1)
    ELSE SelectIdx(data, keep, i + 1)

MaskIndex(a, keep) ==
    LET d == SelectIdx(a.data, keep, 1) IN Arr(<<Len(d)>>, d)

NotNaNMask(a) == [i \in 1..Len(a.data) |-> ~IsNaN(a.data[i])]

Full(shape, v) == Arr(shape, [i \in 1..Prod(shape) |-> v])

(***************************************************************************)
(* Results: a returned array or scalar, or the exception raised.           *)
(***************************************************************************)
Ok(a) == [err |-> "", shape |-> a.shape, data |-> a.data]
Raise(e) == [err |-> e, shape |-> <<>>, data |-> <<>>]
NoResult == Raise("not called")
Val(r) == Arr(r.shape, r.data)
Returned(r) == r.err = ""

\* axis is <<>> for None and <<k>> for the integer k
AxisOk(a, ax) == ax = <<>> \/ (ax[1] >= -Ndim(a) /\ ax[1] < Ndim(a))
AxisNorm(a, ax) == IF ax[1] < 0 THEN ax[1] + Ndim(a) ELSE ax[1]

\* the entries of slot (o, i) of a reduction along axis k, in order
SlotEntries(a, k, o, i) ==
    LET len == a.shape[k + 1]
        inner == Prod(SubSeq(a.shape, k + 2, Len(a.shape)))
    IN  [j \in 1..len |-> a.data[o * len * inner + (j - 1) * inner + i + 1]]

\* apply Red to every slot of the reduction of a along ax (ax valid)
ReduceAxis(Red(_), a, ax) ==
    IF ax = <<>> THEN Scalar(Red(a.data))
    ELSE LET k == AxisNorm(a, ax)
             outer == Prod(SubSeq(a.shape, 1, k))
             inner == Prod(SubSeq(a.shape, k + 2, Len(a.shape)))
             shp == SubSeq(a.shape, 1, k) \o SubSeq(a.shape, k + 2, Len(a.shape))
         IN  Arr(shp, [p \in 1..(outer * inner) |->
                         Red(SlotEntries(a, k, (p - 1) \div inner, (p - 1) % inner))])

\* ndarray.sum(axis)
SumAxis(a, ax) == ReduceAxis(FSumSeq, a, ax)

\* ndarray.mean(axis): NaN propagates; the mean of no entries is NaN
MeanSeq(s) == FDiv(FSumSeq(s), Fin(Len(s)))
MeanAxis(a, ax) == ReduceAxis(MeanSeq, a, ax)

(***************************************************************************)
(* numpy reductions used by the metrics.                                   *)
(***************************************************************************)
\* 1-d weights laid along axis k of a, as np.average broadcasts them
BroadcastAlong(a, w, k) ==
    LET len == a.shape[k + 1]
        inner == Prod(SubSeq(a.shape, k + 2, Len(a.shape)))
    IN  Arr(a.shape, [p \in 1..Len(a.data) |-> w.data[(((p - 1) \div inner) % len) + 1]])

\* np.average with weights of a's shape: sum(a * w) / sum(w), refusing a zero scale
WeightedAvg(a, w, ax) ==
    LET scl == SumAxis(w, ax)
    IN  IF \E i \in 1..Len(scl.data) : scl.data[i] = Zero
        THEN Raise("ZeroDivisionError")
        ELSE Ok(Map2(FDiv, SumAxis(Map2(FMul, a, w), ax), scl))

\* np.average(a, weights=w, axis=ax)
Average(a, w, ax) ==
    IF w = None
    THEN IF AxisOk(a, ax) THEN Ok(MeanAxis(a, ax)) ELSE Raise("AxisError")
    ELSE IF a.shape # w.shape
    THEN IF ax = <<>> THEN Raise("TypeError")
         ELSE IF Ndim(w) # 1 THEN Raise("TypeError")
         ELSE IF ~AxisOk(a, ax) THEN Raise("AxisError")
         ELSE IF w.shape[1] # a.shape[AxisNorm(a, ax) + 1] THEN Raise("ValueError")
         ELSE WeightedAvg(a, BroadcastAlong(a, w, AxisNorm(a, ax)), ax)
    ELSE IF AxisOk(a, ax) THEN WeightedAvg(a, w, ax) ELSE Raise("AxisError")

\* mutant: the NaN entries are counted in the denominator
NanMeanSeqCountAll(s) ==
    LET zeroed == [i \in 1..Len(s) |-> IF IsNaN(s[i]) THEN Zero ELSE s[i]]
    IN  FDiv(FSumSeq(zeroed), Fin(Len(s)))

\* mutant: np.mean in place of np.nanmean
NanMeanSeqPlain(s) == FDiv(FSumSeq(s), Fin(Len(s)))

\* np.nanmean of one slot: NaN entries count as 0 in the sum and are not counted
NanMeanSeq(s) ==
    LET zeroed == [i \in 1..Len(s) |-> IF IsNaN(s[i]) THEN Zero ELSE s[i]]
        cnt == Cardinality({i \in 1..Len(s) : ~IsNaN(s[i])})
    IN  FDiv(FSumSeq(zeroed), Fin(cnt))

\* np.nanmean(a, axis=ax)
NanMean(a, ax) ==
    IF AxisOk(a, ax) THEN Ok(ReduceAxis(NanMeanSeq, a, ax)) ELSE Raise("AxisError")

\* k * r for a returned array r
Scale(k, r) == IF Returned(r) THEN Ok(Map1(LAMBDA v : FMul(Fin(k), v), Val(r))) ELSE r

(***************************************************************************)
(* Project/DatasetsForecast.py                                             *)
(***************************************************************************)
WeightSumError == "AssertionError: Sum of weights cannot be 0"
WeightShapeError == "AssertionError: Wrong weight dimension"
SmapeRangeError == "AssertionError: SMAPE should be lower than 200"

IsWeightError(e) == e \in {WeightSumError, WeightShapeError}

(***************************************************************************)
(* Memory.  A heap is a sequence of arrays; a numpy expression returns a   *)
(* fresh array (a new cell), an item assignment writes into a cell.        *)
(***************************************************************************)
\* mutant: the expression is evaluated in place (out=operand)
AssignInPlace(h, operand, v) == Append([h EXCEPT ![operand] = v], v)

\* the value v of a numpy expression on the array in cell operand: a fresh array
Assign(h, operand, v) == Append(h, v)

\* the cell of the array created last
Top(h) == Len(h)

\* a[mask] = 0.0 on the array in cell c
SetItems(h, c, Mask(_)) ==
    [h EXCEPT ![c] = Map1(LAMBDA v : IF Mask(v) THEN Zero ELSE v, h[c])]

\* div = a / b; div[div != div] = 0.0; div[div == float('inf')] = 0.0
divide_effect(h, a, b) ==
    LET h1 == Assign(h, a, Map2(FDiv, h[a], h[b]))
        h2 == SetItems(h1, Top(h1), IsNaN)
    IN  SetItems(h2, Top(h2), LAMBDA v : v = PInf)

\* the array _divide_no_nan returns for the arrays a and b
_divide_no_nan(a, b) ==
    LET h == divide_effect(<<a, b>>, 1, 2) IN h[Top(h)]

\* the two assertions on the weights; "" when both pass
_metric_protections(yv, yh, w) ==
    IF ~(w = None \/ FLt(Zero, FSumSeq(w.data))) THEN WeightSumError
    ELSE IF ~(w = None \/ w.shape = yv.shape) THEN WeightShapeError
    ELSE ""

\* the NaN-filtered weighted average, or np.nanmean without weights
FilteredMean(v, w, ax) ==
    IF w # None
    THEN Average(MaskIndex(v, NotNaNMask(v)), MaskIndex(w, NotNaNMask(v)), ax)
    ELSE NanMean(v, ax)

mae(yv, yh, w, ax) ==
    LET p == _metric_protections(yv, yh, w)
        delta_y == Map1(FAbs, Map2(FSub, yv, yh))
    IN  IF p # "" THEN Raise(p) ELSE FilteredMean(delta_y, w, ax)

mse(yv, yh, w, ax) ==
    LET p == _metric_protections(yv, yh, w)
        delta_y == Map1(LAMBDA v : FMul(v, v), Map2(FSub, yv, yh))
    IN  IF p # "" THEN Raise(p) ELSE FilteredMean(delta_y, w, ax)

rmse(yv, yh, w, ax) ==
    LET m == mse(yv, yh, w, ax)
    IN  IF Returned(m) THEN Ok(Map1(FSqrt, Val(m))) ELSE m

mape(yv, yh, w, ax) ==
    LET p == _metric_protections(yv, yh, w)
        delta_y == Map1(FAbs, Map2(FSub, yv, yh))
        scale == Map1(FAbs, yv)
    IN  IF p # "" THEN Raise(p)
        ELSE Scale(100, Average(_divide_no_nan(delta_y, scale), w, ax))

smape(yv, yh, w, ax) ==
    LET p == _metric_protections(yv, yh, w)
        delta_y == Map1(FAbs, Map2(FSub, yv, yh))
        scale == Map2(FAdd, Map1(FAbs, yv), Map1(FAbs, yh))
        s == Scale(200, Average(_divide_no_nan(delta_y, scale), w, ax))
    IN  IF p # "" THEN Raise(p)
        ELSE IF ~Returned(s) THEN s
        ELSE IF \A i \in 1..Len(s.data) : FLe(s.data[i], Fin(200)) THEN s
        ELSE Raise(SmapeRangeError)

\* y_train[:-seasonality] and y_train[seasonality:] of a 1-d series
SliceHead(a, n) == LET d == SubSeq(a.data, 1, Len(a.data) - n) IN Arr(<<Len(d)>>, d)
SliceTail(a, n) == LET d == SubSeq(a.data, n + 1, Len(a.data)) IN Arr(<<Len(d)>>, d)

\* mutant: the final division goes through _divide_no_nan
RatioSafe(a, b) ==
    IF ~Returned(a) THEN a
    ELSE IF ~Returned(b) THEN b
    ELSE Ok(_divide_no_nan(Val(a), Val(b)))

\* elementwise a / b of two returned results, the first exception raised otherwise
Ratio(a, b) ==
    IF ~Returned(a) THEN a
    ELSE IF ~Returned(b) THEN b
    ELSE Ok(Map2(FDiv, Val(a), Val(b)))

mase(yv, yh, y_train, seasonality, w, ax) ==
    LET delta_y == Average(Map1(FAbs, Map2(FSub, yv, yh)), w, ax)
        scale == Average(Map1(FAbs, Map2(FSub, SliceHead(y_train, seasonality),
                                               SliceTail(y_train, seasonality))),
                         None, ax)
    IN  Ratio(delta_y, scale)

rmae(yv, y_hat1, y_hat2, w, ax) ==
    Ratio(mae(yv, y_hat1, w, ax), mae(yv, y_hat2, w, ax))

\* variant: q * delta_y alone, without the maximum
PinballOneSided(q, d) == FMul(q, d)

\* np.maximum(q * delta_y, (q - 1) * delta_y)
Pinball(q, d) == FMax(FMul(q, d), FMul(FSub(q, Fin(1)), d))

quantile_loss(yv, yh, q, w, ax) ==
    LET p == _metric_protections(yv, yh, w)
        loss == Map1(LAMBDA d : Pinball(q, d), Map2(FSub, yv, yh))
    IN  IF p # "" THEN Raise(p) ELSE FilteredMean(loss, w, ax)

\* np.repeat(np.expand_dims(a, axis=-1), repeats=n, axis=-1)
RepeatLast(a, n) ==
    Arr(a.shape \o <<n>>, [p \in 1..(Len(a.data) * n) |-> a.data[((p - 1) \div n) + 1]])

\* y_hat[..., i] for the 0-based quantile index i
QuantileSlice(yh, i) ==
    LET n == yh.shape[Len(yh.shape)]
    IN  Arr(SubSeq(yh.shape, 1, Len(yh.shape) - 1),
            [p \in 1..(Len(yh.data) \div n) |-> yh.data[(p - 1) * n + i + 1]])

mqloss(yv, yh, qs, w, ax) ==
    LET w1 == IF w = None THEN Arr(yv.shape, [i \in 1..Len(yv.data) |-> Fin(1)]) ELSE w
        p == _metric_protections(yv, yh, w1)
        n_q == Len(qs.data)
        y_rep == RepeatLast(yv, n_q)
        error == Map2(FSub, y_rep, yh)
        loss == Arr(error.shape, [i \in 1..Len(error.data) |->
                        Pinball(qs.data[((i - 1) % n_q) + 1], error.data[i])])
    IN  IF p # "" THEN Raise(p) ELSE Average(loss, RepeatLast(w1, n_q), ax)

\* 100 * np.logical_and(y >= y_hat_lo, y <= y_hat_hi).mean()
coverage(yv, y_hat_lo, y_hat_hi) ==
    LET hit == [i \in 1..Len(yv.data) |->
                  IF FLe(y_hat_lo.data[i], yv.data[i]) /\ FLe(yv.data[i], y_hat_hi.data[i])
                  THEN Fin(1) ELSE Zero]
    IN  Ok(Scalar(FMul(Fin(100), MeanSeq(hit))))

\* (y <= y_hat_hi).mean()
calibration(yv, y_hat_hi) ==
    LET hit == [i \in 1..Len(yv.data) |->
                  IF FLe(yv.data[i], y_hat_hi.data[i]) THEN Fin(1) ELSE Zero]
    IN  Ok(Scalar(MeanSeq(hit)))

\* scaled_crps: norm + eps is norm for the sums the callers below produce (an
\* integer at least 2, or NaN), where eps = 2^-52 is below half a unit in the
\* last place
scaled_crps(yv, yh, qs, w, ax) ==
    LET norm == FSumSeq(Map1(FAbs, yv).data)
        loss == mqloss(yv, yh, qs, w, ax)
        n == Fin(Len(yv.data))
    IN  IF Returned(loss)
        THEN Ok(Map1(LAMBDA v : FDiv(FMul(FMul(Fin(2), v), n), norm), Val(loss)))
        ELSE loss

(***************************************************************************)
(* What each function does to memory.  The heap it is given holds the      *)
(* caller's arrays in cells 1..5: y, y_hat, weights, the third array       *)
(* argument (y_train, y_hat2, the quantile forecast, an interval bound)    *)
(* and quantiles; None where the argument is absent.                       *)
(***************************************************************************)
\* F(y - y_hat) with y_hat in cell c
error_effect(h, c, F(_)) ==
    LET h1 == Assign(h, 1, Map2(FSub, h[1], h[c]))
    IN  Assign(h1, Top(h1), Map1(F, h1[Top(h1)]))

\* v[~np.isnan(v)] and weights[~np.isnan(v)] for v in the top cell
filter_effect(h) ==
    LET v == Top(h)
        h1 == Assign(h, v, MaskIndex(h[v], NotNaNMask(h[v])))
    IN  IF h[3] = None THEN h
        ELSE Assign(h1, 3, MaskIndex(h[3], NotNaNMask(h[v])))

mae_effect(h, c) ==
    IF _metric_protections(h[1], h[c], h[3]) # "" THEN h
    ELSE filter_effect(error_effect(h, c, FAbs))

mse_effect(h) ==
    IF _metric_protections(h[1], h[2], h[3]) # "" THEN h
    ELSE filter_effect(error_effect(h, 2, LAMBDA v : FMul(v, v)))

mape_effect(h) ==
    IF _metric_protections(h[1], h[2], h[3]) # "" THEN h
    ELSE LET h1 == error_effect(h, 2, FAbs)
             h2 == Assign(h1, 1, Map1(FAbs, h1[1]))
         IN  divide_effect(h2, Top(h1), Top(h2))

smape_effect(h) ==
    IF _metric_protections(h[1], h[2], h[3]) # "" THEN h
    ELSE LET h1 == error_effect(h, 2, FAbs)
             h2 == Assign(h1, 1, Map1(FAbs, h1[1]))
             h3 == Assign(h2, 2, Map1(FAbs, h2[2]))
             h4 == Assign(h3, Top(h2), Map2(FAdd, h3[Top(h2)], h3[Top(h3)]))
         IN  divide_effect(h4, Top(h1), Top(h4))

mase_effect(h, seasonality) ==
    LET h1 == error_effect(h, 2, FAbs)
        d == Map2(FSub, SliceHead(h1[4], seasonality), SliceTail(h1[4], seasonality))
        h2 == Assign(h1, 4, d)
    IN  Assign(h2, Top(h2), Map1(FAbs, d))

rmae_effect(h) == mae_effect(mae_effect(h, 2), 4)

quantile_loss_effect(h, q) ==
    IF _metric_protections(h[1], h[2], h[3]) # "" THEN h
    ELSE LET h1 == Assign(h, 1, Map2(FSub, h[1], h[2]))
             h2 == Assign(h1, Top(h1), Map1(LAMBDA d : Pinball(q, d), h1[Top(h1)]))
         IN  filter_effect(h2)

\* the local name weights is bound to fresh arrays twice; y_rep is a view of y
mqloss_effect(h) ==
    LET h0 == IF h[3] = None THEN Assign(h, 1, Full(h[1].shape, Fin(1))) ELSE h
        w == IF h[3] = None THEN Top(h0) ELSE 3
        n_q == Len(h[5].data)
        h1 == Assign(h0, 1, Map2(FSub, RepeatLast(h0[1], n_q), h0[4]))
        h2 == Assign(h1, 5, Arr(h1[4].shape, [i \in 1..Len(h1[4].data) |->
                        Pinball(h1[5].data[((i - 1) % n_q) + 1], h1[Top(h1)].data[i])]))
    IN  IF _metric_protections(h0[1], h0[4], h0[w]) # "" THEN h0
        ELSE Assign(h2, w, RepeatLast(h2[w], n_q))

scaled_crps_effect(h) ==
    LET h1 == Assign(h, 1, Map1(FAbs, h[1]))
        h2 == mqloss_effect(h1)
    IN  IF _metric_protections(h[1], h[4], IF h[3] = None THEN h[1] ELSE h[3]) # "" THEN h2
        ELSE Assign(h2, 1, Full(h2[1].shape, Fin(1)))

\* boolean arrays hold 1 (True) and 0 (False)
coverage_effect(h) ==
    LET ge == [i \in 1..Len(h[1].data) |-> IF FLe(h[2].data[i], h[1].data[i]) THEN Fin(1) ELSE Zero]
        le == [i \in 1..Len(h[1].data) |-> IF FLe(h[1].data[i], h[4].data[i]) THEN Fin(1) ELSE Zero]
        h1 == Assign(h, 1, Arr(h[1].shape, ge))
        h2 == Assign(h1, 1, Arr(h[1].shape, le))
    IN  Assign(h2, Top(h1), Map2(FMul, h2[Top(h1)], h2[Top(h2)]))

calibration_effect(h) ==
    Assign(h, 1, Arr(h[1].shape, [i \in 1..Len(h[1].data) |->
                        IF FLe(h[1].data[i], h[4].data[i]) THEN Fin(1) ELSE Zero]))

(***************************************************************************)
(* Callers: the arguments of one call are drawn from bounded sets, and one *)
(* action per public function applies it, records what it returned or     *)
(* raised and leaves the caller's arrays as the call left them.            *)
(***************************************************************************)
Vals == {NaN} \cup {Fin(i) : i \in 0..MaxVal}
\* the entries of the 2-d observations: missing, zero or the largest value
Vals2 == {NaN, Zero, Fin(MaxVal)}
\* the entries of a constant forecast
HatVals == {NaN, Fin(1)}
\* the entries of the operands of a division
DivVals == {Fin(i) : i \in -MaxVal..MaxVal}
FinVals == {Fin(i) : i \in 0..MaxVal}
WVals == {Fin(i) : i \in -1..2}
Shapes1 == {<<n>> : n \in 1..MaxLen}
Shapes == Shapes1 \cup {<<2, 2>>}
Axes == {<<>>, <<0>>, <<1>>}
QLevels == {<<1, 10>>, <<1, 2>>, <<9, 10>>}
QuantileSets == {Arr(<<2>>, <<<<1, 10>>, <<9, 10>>>>)}

Ramp(shape) == Arr(shape, [i \in 1..Prod(shape) |-> Fin(i)])

\* forecasts for the observations yv: the perfect forecast and the constant ones
HatChoices(yv, S) == {yv} \cup {Full(yv.shape, v) : v \in S}

\* y_hat with one trailing slice per quantile
Stack2(s1, s2) ==
    Arr(s1.shape \o <<2>>, [p \in 1..(2 * Len(s1.data)) |->
            IF (p - 1) % 2 = 0 THEN s1.data[((p - 1) \div 2) + 1]
            ELSE s2.data[((p - 1) \div 2) + 1]])

Idle ==
    /\ fn = ""
    /\ aux = None
    /\ quantiles = None
    /\ result = NoResult
    /\ heap = <<y, y_hat, weights, None, None>>
    /\ pc = "ready"

\* point forecasts of any shape, no weights or weights of y's shape
Init ==
    /\ \E shape \in Shapes :
          /\ y \in ArraysOver(shape, IF Len(shape) = 1 THEN Vals ELSE Vals2)
          /\ weights \in {None, Ramp(shape)}
    /\ y_hat \in HatChoices(y, HatVals)
    /\ axis \in Axes
    /\ Idle

\* 1-d series with arbitrary weight vectors, valid or not
InitW ==
    /\ \E shape \in Shapes1 : y \in ArraysOver(shape, Vals)
    /\ \E shape \in Shapes1 : weights \in ArraysOver(shape, WVals)
    /\ y_hat \in HatChoices(y, HatVals)
    /\ axis = <<>>
    /\ Idle

\* 1-d series without missing values, for the scaled and interval metrics
InitScaled ==
    /\ \E shape \in Shapes1 :
          /\ y \in ArraysOver(shape, FinVals)
          /\ weights \in {None, Full(shape, Fin(1)), Full(shape, Zero),
                          Full(shape, Fin(-1)), Full(<<shape[1] + 1>>, Fin(1))}
    /\ y_hat \in HatChoices(y, FinVals)
    /\ axis \in {<<>>, <<0>>}
    /\ Idle

\* the operands a and b of a division, held in y and y_hat
InitDivide ==
    /\ \E shape \in Shapes1 :
          /\ y \in ArraysOver(shape, DivVals)
          /\ y_hat \in ArraysOver(shape, DivVals)
    /\ weights = None
    /\ axis = <<>>
    /\ Idle

\* the entries of a constant forecast above or below the observations
HalfHatVals == {NaN, Zero, Fin(1)}

\* series and 2-d arrays with missing values; weights absent, valid, summing to
\* zero or of another shape; any axis
InitHalf ==
    /\ \E shape \in Shapes :
          /\ y \in ArraysOver(shape, IF Len(shape) = 1 THEN Vals ELSE Vals2)
          /\ weights \in {None, Ramp(shape), Full(shape, Zero),
                          Full(<<shape[1] + 1>>, Fin(1))}
    /\ y_hat \in HatChoices(y, HalfHatVals)
    /\ axis \in Axes
    /\ Idle

\* the call of fn returns or raises r and leaves the heap h behind
Call(name, r, h) ==
    /\ pc = "ready"
    /\ pc' = "done"
    /\ fn' = name
    /\ result' = r
    /\ heap' = SubSeq(h, 1, 5)
    /\ UNCHANGED <<y, y_hat, weights, axis>>

Call_mae ==
    /\ Call("mae", mae(y, y_hat, weights, axis), mae_effect(heap, 2))
    /\ UNCHANGED <<aux, quantiles>>

Call_mse ==
    /\ Call("mse", mse(y, y_hat, weights, axis), mse_effect(heap))
    /\ UNCHANGED <<aux, quantiles>>

\* applied where the square root of the MSE is an extended rational
Call_rmse ==
    /\ LET m == mse(y, y_hat, weights, axis)
       IN  \A i \in 1..Len(m.data) : HasExactSqrt(m.data[i])
    /\ Call("rmse", rmse(y, y_hat, weights, axis), mse_effect(heap))
    /\ UNCHANGED <<aux, quantiles>>

Call_mape ==
    /\ Call("mape", mape(y, y_hat, weights, axis), mape_effect(heap))
    /\ UNCHANGED <<aux, quantiles>>

Call_smape ==
    /\ Call("smape", smape(y, y_hat, weights, axis), smape_effect(heap))
    /\ UNCHANGED <<aux, quantiles>>

Call_quantile_loss ==
    \E q \in QLevels :
        /\ Call("quantile_loss", quantile_loss(y, y_hat, q, weights, axis),
                quantile_loss_effect([heap EXCEPT ![5] = Scalar(q)], q))
        /\ quantiles' = Scalar(q)
        /\ UNCHANGED aux

\* the quantile forecast carries two slices, each the perfect forecast or y_hat
Call_mqloss ==
    \E qs \in QuantileSets, s1 \in {y, y_hat}, s2 \in {y, y_hat} :
        /\ Call("mqloss", mqloss(y, Stack2(s1, s2), qs, weights, axis),
                mqloss_effect([heap EXCEPT ![4] = Stack2(s1, s2), ![5] = qs]))
        /\ quantiles' = qs
        /\ aux' = Stack2(s1, s2)

\* applied where norm + eps is norm; both quantile slices are the same forecast
Call_scaled_crps ==
    \E qs \in QuantileSets, s1 \in {y, y_hat} :
        /\ LET norm == FSumSeq(Map1(FAbs, y).data)
           IN  IsNaN(norm) \/ FLe(Fin(2), norm)
        /\ Call("scaled_crps", scaled_crps(y, Stack2(s1, s1), qs, weights, axis),
                scaled_crps_effect([heap EXCEPT ![4] = Stack2(s1, s1), ![5] = qs]))
        /\ quantiles' = qs
        /\ aux' = Stack2(s1, s1)

\* y_train is a 1-d history one longer than the longest series
Call_mase ==
    \E y_train \in ArraysOver(<<MaxLen + 1>>, {Zero, Fin(1)}), seasonality \in 1..MaxLen :
        /\ Call("mase", mase(y, y_hat, y_train, seasonality, weights, axis),
                mase_effect([heap EXCEPT ![4] = y_train, ![5] = Scalar(Fin(seasonality))],
                            seasonality))
        /\ aux' = y_train
        /\ quantiles' = Scalar(Fin(seasonality))

Call_rmae ==
    \E y_hat2 \in HatChoices(y, FinVals) :
        /\ Call("rmae", rmae(y, y_hat, y_hat2, weights, axis),
                rmae_effect([heap EXCEPT ![4] = y_hat2]))
        /\ aux' = y_hat2
        /\ UNCHANGED quantiles

\* y_hat is the lower bound of the interval
Call_coverage ==
    \E y_hat_hi \in HatChoices(y, FinVals) :
        /\ Call("coverage", coverage(y, y_hat, y_hat_hi),
                coverage_effect([heap EXCEPT ![4] = y_hat_hi]))
        /\ aux' = y_hat_hi
        /\ UNCHANGED quantiles

Call_calibration ==
    \E y_hat_hi \in HatChoices(y, FinVals) :
        /\ Call("calibration", calibration(y, y_hat_hi),
                calibration_effect([heap EXCEPT ![4] = y_hat_hi]))
        /\ aux' = y_hat_hi
        /\ UNCHANGED quantiles

Call_divide_no_nan ==
    /\ Call("_divide_no_nan", Ok(_divide_no_nan(y, y_hat)), divide_effect(heap, 1, 2))
    /\ UNCHANGED <<aux, quantiles>>

Next ==
    \/ Call_mae
    \/ Call_mse
    \/ Call_rmse
    \/ Call_mape
    \/ Call_smape
    \/ Call_quantile_loss
    \/ Call_mqloss
    \/ Call_scaled_crps

NextW ==
    \/ Call_mae
    \/ Call_mse
    \/ Call_mape
    \/ Call_smape
    \/ Call_quantile_loss

NextScaled ==
    \/ Call_mase
    \/ Call_rmae
    \/ Call_coverage
    \/ Call_calibration

NextDivide == Call_divide_no_nan

NextFrame == Next \/ NextScaled

Spec == Init /\ [][Next]_vars
SpecW == InitW /\ [][NextW]_vars
SpecScaled == InitScaled /\ [][NextScaled]_vars
SpecDivide == InitDivide /\ [][NextDivide]_vars
SpecFrame == InitScaled /\ [][NextFrame]_vars

NextHalf == Call_mae \/ Call_quantile_loss

SpecHalf == InitHalf /\ [][NextHalf]_vars

(***************************************************************************)
(* Reference notions the properties are stated with.                       *)
(***************************************************************************)
Done(name) == pc = "done" /\ fn = name

RECURSIVE SumOver(_, _)
SumOver(S, f) ==
    IF S = {} THEN Zero
    ELSE LET x == CHOOSE x \in S : TRUE IN FAdd(f[x], SumOver(S \ {x}, f))

\* the elementwise error of the called metric at position i of y and y_hat
ErrAt(i) ==
    LET d == FSub(y.data[i], y_hat.data[i])
    IN  CASE fn = "mae" -> FAbs(d)
          [] fn \in {"mse", "rmse"} -> FMul(d, d)
          [] fn = "quantile_loss" ->
                IF FLe(Zero, d) THEN FMul(quantiles.data[1], d)
                ELSE IF IsNaN(d) THEN NaN
                ELSE FMul(FSub(Fin(1), quantiles.data[1]), FNeg(d))
          [] OTHER -> NaN

\* the positions of y that fall into each slot of a reduction along axis
RefSlots(shape, ax) ==
    IF ax = <<>> \/ Len(shape) = 1 THEN <<1..Prod(shape)>>
    ELSE IF ax[1] = 0
    THEN [c \in 1..shape[2] |-> {(r - 1) * shape[2] + c : r \in 1..shape[1]}]
    ELSE [r \in 1..shape[1] |-> {(r - 1) * shape[2] + c : c \in 1..shape[2]}]

RefShape(shape, ax) ==
    IF ax = <<>> \/ Len(shape) = 1 THEN <<>>
    ELSE IF ax[1] = 0 THEN <<shape[2]>> ELSE <<shape[1]>>

\* the positions of a slot whose error is a number
Valid(P) == {i \in P : ~IsNaN(ErrAt(i))}

AllFinite(a) == \A i \in 1..Len(a.data) : IsFinite(a.data[i])
SomeFinite(a) == \E i \in 1..Len(a.data) : IsFinite(a.data[i])

(***************************************************************************)
(* C7: without weights, mae, mse and quantile_loss return for each slot of *)
(* the requested axis (the whole array for axis=None) the sum of the       *)
(* errors at the non-NaN positions divided by their number; a slot with    *)
(* only NaN entries holds NaN and nothing is raised.                       *)
(***************************************************************************)
C7_NanMeanPerSlot ==
    (pc = "done" /\ fn \in {"mae", "mse", "quantile_loss"} /\ weights = None
        /\ AxisOk(y, axis))
    => /\ Returned(result)
       /\ result.shape = RefShape(y.shape, axis)
       /\ LET slots == RefSlots(y.shape, axis)
          IN  /\ Len(result.data) = Len(slots)
              /\ \A k \in 1..Len(slots) :
                    LET P == Valid(slots[k])
                        e == [i \in P |-> ErrAt(i)]
                    IN  result.data[k] =
                          IF P = {} THEN NaN
                          ELSE FDiv(SumOver(P, e), Fin(Cardinality(P)))

\* a call along an axis of a 2-d array with one slot all NaN and one slot
\* partly NaN whose mean is a positive number
C7_Witness ==
    /\ Done("mae") /\ weights = None /\ Ndim(y) = 2 /\ axis = <<1>>
    /\ IsNaN(result.data[1])
    /\ IsNaN(ErrAt(3)) /\ IsFinite(result.data[2]) /\ result.data[2] # Zero

(***************************************************************************)
(* C8 as stated: a forecast identical to the observations scores zero for  *)
(* every array y (weights and axis left at None).                          *)
(***************************************************************************)
PerfectPoint ==
    /\ pc = "done" /\ fn \in {"mae", "mse", "rmse", "quantile_loss"}
    /\ y_hat = y /\ weights = None /\ axis = <<>>

PerfectQuantile ==
    /\ Done("mqloss") /\ aux = Stack2(y, y) /\ weights = None /\ axis = <<>>

WeightedMetrics ==
    {"mae", "mse", "rmse", "mape", "smape", "mase", "rmae", "quantile_loss",
     "mqloss", "scaled_crps"}

BadWeights ==
    /\ weights # None
    /\ FLe(FSumSeq(weights.data), Zero) \/ weights.shape # y.shape

C1_BadWeightsRejected ==
    (pc = "done" /\ fn \in WeightedMetrics /\ BadWeights) => IsWeightError(result.err)

(***************************************************************************)
(* C2: _divide_no_nan(a, b) holds 0 wherever a/b is NaN, +inf or -inf and  *)
(* the quotient everywhere else.                                           *)
(***************************************************************************)
C2_QuotientFlattened ==
    Done("_divide_no_nan") =>
        \A i \in 1..Len(y.data) :
            LET quot == FDiv(y.data[i], y_hat.data[i])
            IN  result.data[i] = IF quot \in {NaN, PInf, NInf} THEN Zero ELSE quot

(***************************************************************************)
(* C3: every value smape returns lies in [0, 200].                         *)
(***************************************************************************)
C3_SmapeInRange ==
    (Done("smape") /\ Returned(result)) =>
        \A i \in 1..Len(result.data) :
            FLe(Zero, result.data[i]) /\ FLe(result.data[i], Fin(200))

(***************************************************************************)
(* C4: an entry that is NaN in y or y_hat is left out of the average: on   *)
(* 1-d series reduced with axis=None, the result is the metric of the      *)
(* remaining positions.                                                    *)
(***************************************************************************)
Kept ==
    [i \in 1..Len(y.data) |->
        /\ ~IsNaN(y.data[i])
        /\ IF fn = "mqloss"
           THEN ~IsNaN(aux.data[2 * i - 1]) /\ ~IsNaN(aux.data[2 * i])
           ELSE ~IsNaN(y_hat.data[i])]

Compress(a) == IF a = None THEN None ELSE MaskIndex(a, Kept)

OnKept ==
    CASE fn = "mae" -> mae(Compress(y), Compress(y_hat), Compress(weights), <<>>)
      [] fn = "mse" -> mse(Compress(y), Compress(y_hat), Compress(weights), <<>>)
      [] fn = "rmse" -> rmse(Compress(y), Compress(y_hat), Compress(weights), <<>>)
      [] fn = "mape" -> mape(Compress(y), Compress(y_hat), Compress(weights), <<>>)
      [] fn = "smape" -> smape(Compress(y), Compress(y_hat), Compress(weights), <<>>)
      [] fn = "quantile_loss" ->
            quantile_loss(Compress(y), Compress(y_hat), quantiles.data[1],
                          Compress(weights), <<>>)
      [] fn = "mqloss" ->
            mqloss(Compress(y),
                   Stack2(Compress(QuantileSlice(aux, 0)), Compress(QuantileSlice(aux, 1))),
                   quantiles, Compress(weights), <<>>)

C4_NaNExcluded ==
    (/\ pc = "done"
     /\ fn \in {"mae", "mse", "rmse", "mape", "smape", "quantile_loss", "mqloss"}
     /\ Ndim(y) = 1 /\ axis = <<>>
     /\ \E i \in 1..Len(y.data) : Kept[i])
    => result = OnKept

(***************************************************************************)
(* C5: with valid weights, mae, mse and quantile_loss return for every     *)
(* slot of the requested axis the weighted mean of the errors of the slot  *)
(* that are not NaN (the whole array for axis=None).                       *)
(***************************************************************************)
C5_WeightedMeanPerSlot ==
    (/\ pc = "done" /\ fn \in {"mae", "mse", "quantile_loss"}
     /\ weights # None /\ AxisOk(y, axis)
     /\ \A k \in 1..Len(RefSlots(y.shape, axis)) : Valid(RefSlots(y.shape, axis)[k]) # {})
    => /\ Returned(result)
       /\ result.shape = RefShape(y.shape, axis)
       /\ LET slots == RefSlots(y.shape, axis)
          IN  /\ Len(result.data) = Len(slots)
              /\ \A k \in 1..Len(slots) :
                    LET P == Valid(slots[k])
                        we == [i \in P |-> FMul(weights.data[i], ErrAt(i))]
                        w == [i \in P |-> weights.data[i]]
                    IN  result.data[k] = FDiv(SumOver(P, we), SumOver(P, w))

(***************************************************************************)
(* C6: without weights and with axis=None, mqloss is the arithmetic mean   *)
(* of the quantile_loss of every quantile slice at its quantile.           *)
(***************************************************************************)
MeanOfTwo(a, b) ==
    IF Returned(a) /\ Returned(b)
    THEN Ok(Scalar(FDiv(FAdd(a.data[1], b.data[1]), Fin(2))))
    ELSE IF Returned(a) THEN b ELSE a

C6_MqlossIsMeanOfQuantileLosses ==
    (Done("mqloss") /\ weights = None /\ axis = <<>>) =>
        result = MeanOfTwo(
            quantile_loss(y, QuantileSlice(aux, 0), quantiles.data[1], None, <<>>),
            quantile_loss(y, QuantileSlice(aux, 1), quantiles.data[2], None, <<>>))

(***************************************************************************)
(* C9: mase and rmae do not guard their final division: with a zero        *)
(* denominator the call returns +inf for a positive numerator and NaN for  *)
(* a zero numerator, raises nothing and returns no finite number.          *)
(***************************************************************************)
\* the weighted mean of |y - y_hat| is computed: np.average accepts the weights
NumeratorComputed ==
    IF fn = "mase"
    THEN weights = None
            \/ (weights.shape = y.shape /\ FSumSeq(weights.data) # Zero)
    ELSE weights = None
            \/ (weights.shape = y.shape /\ FLt(Zero, FSumSeq(weights.data)))

RefNumerator ==
    LET P == 1..Len(y.data)
        w == [i \in P |-> IF weights = None THEN Fin(1) ELSE weights.data[i]]
        we == [i \in P |-> FMul(w[i], FAbs(FSub(y.data[i], y_hat.data[i])))]
    IN  FDiv(SumOver(P, we), SumOver(P, w))

\* mase: the seasonal differences of y_train all vanish; rmae: y_hat2 is perfect
DenominatorZero ==
    IF fn = "mase"
    THEN LET s == quantiles.data[1][1]
         IN  /\ Len(aux.data) > s
             /\ \A i \in 1..(Len(aux.data) - s) : aux.data[i] = aux.data[i + s]
    ELSE aux = y

C9_UnguardedDivision ==
    (pc = "done" /\ fn \in {"mase", "rmae"} /\ NumeratorComputed /\ DenominatorZero)
    => /\ Returned(result)
       /\ Len(result.data) = 1
       /\ ~IsFinite(result.data[1])
       /\ FLt(Zero, RefNumerator) => result.data[1] = PInf
       /\ RefNumerator = Zero => result.data[1] = NaN

\* mase of an imperfect forecast against a constant training series
C9_Witness ==
    /\ Done("mase") /\ NumeratorComputed /\ DenominatorZero
    /\ FLt(Zero, RefNumerator)
    /\ result = Ok(Scalar(PInf))

(***************************************************************************)
(* C10: after a call of any of the twelve public functions, returned or    *)
(* raised, the caller's y, y_hat, weights, third array argument and        *)
(* quantiles hold the values they held before the call.                    *)
(***************************************************************************)
C10_ArgumentsUnchanged ==
    pc = "done" => heap = <<y, y_hat, weights, aux, quantiles>>

\* mape returned after _divide_no_nan zeroed a 0/0 entry of the quotient in place
C10_Witness ==
    /\ Done("mape") /\ Returned(result)
    /\ \E i \in 1..Len(y.data) : y.data[i] = Zero /\ y_hat.data[i] = Zero
    /\ heap[1] = y

(***************************************************************************)
(* C11: with weights that pass validation and at least one position whose  *)
(* error is not NaN, weighted mae, mse and quantile_loss with axis=None     *)
(* return a value and raise nothing: the weights left after the NaN        *)
(* positions are dropped do not sum to zero.                               *)
(***************************************************************************)
WeightsPass ==
    /\ weights # None
    /\ weights.shape = y.shape
    /\ FLt(Zero, FSumSeq(weights.data))

KeptWeightSum ==
    LET P == Valid(1..Len(y.data))
    IN  SumOver(P, [i \in P |-> weights.data[i]])

C11_FilteredWeightsNeverZero ==
    (/\ pc = "done" /\ fn \in {"mae", "mse", "quantile_loss"}
     /\ WeightsPass /\ axis = <<>>
     /\ Valid(1..Len(y.data)) # {})
    => Returned(result) /\ KeptWeightSum # Zero

(***************************************************************************)
(* C12: for every y, y_hat, weights and axis, quantile_loss at q = 0.5 is  *)
(* one half of mae: the two raise the same error on the same inputs and    *)
(* otherwise return arrays of the same shape with 2 * quantile_loss = mae  *)
(* at every entry, NaN where mae is NaN.                                   *)
(***************************************************************************)
Median == <<1, 2>>

C12_MedianLossIsHalfMae ==
    /\ (Done("quantile_loss") /\ quantiles = Scalar(Median))
          => Scale(2, result) = mae(y, y_hat, weights, axis)
    /\ Done("mae")
          => result = Scale(2, quantile_loss(y, y_hat, Median, weights, axis))

\* a weighted median loss over a series with a missing entry, an entry forecast
\* too high and none too low, returning a positive number
C12_Witness ==
    /\ Done("quantile_loss") /\ quantiles = Scalar(Median)
    /\ weights = Ramp(y.shape)
    /\ \E i \in 1..Len(y.data) : IsNaN(ErrAt(i))
    /\ \E i \in 1..Len(y.data) : FLt(y.data[i], y_hat.data[i])
    /\ Returned(result) /\ FLt(Zero, result.data[1])
    /\ Scale(2, result) = mae(y, y_hat, weights, axis)

====
